---- MODULE Spec2Model ----
(***************************************************************************)
(* Model of the evaluation runner of playscenario_prompts                  *)
(* (src/evaluations/evaluate.py): run_evaluation as a sequential state     *)
(* machine, LlmClientFactory.get_client, strip_markdown and the prompt     *)
(* factory resolution of src/prompts/agents/*/prompt_factory.py.           *)
(*                                                                         *)
(* Text is modelled as a sequence of characters where the code looks       *)
(* inside it (substring tests) and as a sequence of tokens where the code  *)
(* only looks at its markdown / JSON structure.                            *)
(***************************************************************************)
EXTENDS Integers, Sequences, FiniteSets, TLC

\* ------------------------------------------------------------------ bounds
\* longest assertion list of a test case
MaxAssertions == 2
\* largest number of metrics in the thresholds of one ai_critique assertion
MaxThresholds == 2

\* ------------------------------------------------------------ basic values
\* strings the substring tests look into are sequences over this alphabet
Str_a  == <<"a">>
Str_ab == <<"a", "b">>
Str_ba == <<"b", "a">>

\* Python `s in t` for two str values
IsSubstring(s, t) ==
    \E i \in 0..(Len(t) - Len(s)) : SubSeq(t, i + 1, i + Len(s)) = s

\* value of one field of a JSON object, by Python type after json.loads:
\* "absent" (key not present), "str", "list" (of str), "num" (int/float)
FV(t, s, l) == [t |-> t, s |-> s, l |-> l]
AbsentFV    == FV("absent", <<>>, <<>>)
\* scores carried by a critique response
NoScores == [creativity |-> 0, depth |-> 0, originality |-> 0]

\* a JSON document as json.loads / model_validate_json see it: its top-level
\* kind, the value of its "name" field, the schema classes of prompts.schemas
\* it validates against and, for a critique, its three scores
JV(kind, name, conforms, scores) ==
    [kind |-> kind, name |-> name, conforms |-> conforms, scores |-> scores]
NoJson == JV("none", AbsentFV, {}, NoScores)

\* tokens of a text: "open" is the fence "```json\n", "close" is "\n```",
\* "plain" is an opening fence without the json tag ("```\n"), "text" is
\* prose, "json" is one complete JSON document
Tok(k, v)  == [k |-> k, v |-> v]
OpenFence  == Tok("open", NoJson)
PlainFence == Tok("plain", NoJson)
CloseFence == Tok("close", NoJson)
Prose      == Tok("text", NoJson)
JsonTok(v) == Tok("json", v)

\* strip_markdown: re.sub(r"```json\n(.*?)\n```", r"\1", text, DOTALL).
\* Every leftmost, shortest "open ... close" span is replaced by its inside;
\* scanning resumes after the closing fence.
RECURSIVE strip_markdown(_)
strip_markdown(text) ==
    IF text = <<>> THEN <<>>
    ELSE IF Head(text).k = "open"
              /\ \E j \in 2..Len(text) : text[j].k = "close"
         THEN LET j == CHOOSE j \in 2..Len(text) :
                           /\ text[j].k = "close"
                           /\ \A m \in 2..(j - 1) : text[m].k # "close"
              IN  SubSeq(text, 2, j - 1) \o strip_markdown(SubSeq(text, j + 1, Len(text)))
         ELSE <<Head(text)>> \o strip_markdown(Tail(text))

\* json.loads(text): succeeds when the text is exactly one JSON document
json_parses(text) == Len(text) = 1 /\ text[1].k = "json"
json_loads(text)  == text[1].v

\* ------------------------------------------------- models config and env
\* environment variables that hold a non-empty value (os.getenv is truthy)
EnvSet == {"GOOGLE_API_KEY", "MISTRAL_API_KEY", "CEREBRAS_API_KEY", "LLAMA_API_KEY"}
\* an entry that has no "api_key_env" key: model_info.get returns None
NoEnvName == "<None>"

Info(provider, api_key_env) ==
    [entry |-> "info", provider |-> provider, api_key_env |-> api_key_env]
\* key not in the mapping (dict.get returns None) / key mapped to {}
AbsentEntry == [entry |-> "absent", provider |-> "", api_key_env |-> NoEnvName]
EmptyEntry  == [entry |-> "empty", provider |-> "", api_key_env |-> NoEnvName]

\* the "models" mapping of the models config under test: one entry for each
\* branch of get_client
ModelKeys == {"gemini_flash_strict", "mistral_large", "cerebras_fast", "gpt4",
              "llama_local", "claude_nokey", "gemini_noenv", "empty_model",
              "missing_model"}
ModelsYaml ==
    [k \in ModelKeys |->
        CASE k = "gemini_flash_strict" -> Info("google", "GOOGLE_API_KEY")
          [] k = "mistral_large"       -> Info("mistral", "MISTRAL_API_KEY")
          [] k = "cerebras_fast"       -> Info("cerebras", "CEREBRAS_API_KEY")
          [] k = "gpt4"                -> Info("openai", "OPENAI_API_KEY")
          [] k = "llama_local"         -> Info("ollama", "LLAMA_API_KEY")
          [] k = "claude_nokey"        -> Info("anthropic", "ANTHROPIC_API_KEY")
          [] k = "gemini_noenv"        -> Info("google", NoEnvName)
          [] k = "empty_model"         -> EmptyEntry
          [] OTHER                     -> AbsentEntry]

\* outcome of a call: kind is the class of the client returned or of the
\* exception raised
Client(kind, key) == [kind |-> kind, key |-> key]
ClientKinds == {"GoogleClient", "OpenAICompatibleClient"}

\* get_client that dispatches on the provider before it reads the API key
get_client_provider_first(models_config, model_key) ==
    LET model_info == models_config[model_key] IN
    IF model_info.entry # "info"
    THEN Client("ValueError", model_key)
    ELSE IF model_info.provider \notin {"google", "openai", "mistral", "cerebras"}
    THEN Client("NotImplementedError", model_key)
    ELSE IF model_info.api_key_env = NoEnvName
    THEN Client("TypeError", model_key)
    ELSE IF model_info.api_key_env \notin EnvSet
    THEN Client("ValueError", model_key)
    ELSE IF model_info.provider = "google"
    THEN Client("GoogleClient", model_key)
    ELSE Client("OpenAICompatibleClient", model_key)

\* LlmClientFactory.get_client
get_client(models_config, model_key) ==
    LET model_info == models_config[model_key] IN
    IF model_info.entry # "info"
    THEN Client("ValueError", model_key)
    ELSE IF model_info.api_key_env = NoEnvName
    THEN Client("TypeError", model_key)            \* os.getenv(None)
    ELSE IF model_info.api_key_env \notin EnvSet
    THEN Client("ValueError", model_key)
    ELSE IF model_info.provider = "google"
    THEN Client("GoogleClient", model_key)
    ELSE IF model_info.provider \in {"openai", "mistral", "cerebras"}
    THEN Client("OpenAICompatibleClient", model_key)
    ELSE Client("NotImplementedError", model_key)

\* ------------------------------------------------------- prompt factories
\* an agent name is the list of its words (agent_name.split('_'))
Agents == { <<"character", "helper">>, <<"scenario", "helper">>, <<"moderator">>,
            <<"scenario", "feedback">>, <<"character", "in", "simulation">>,
            <<"intent", "router">> }

\* str.capitalize on the words that occur
capitalize(word) ==
    CASE word = "character"  -> "Character"
      [] word = "helper"     -> "Helper"
      [] word = "scenario"   -> "Scenario"
      [] word = "moderator"  -> "Moderator"
      [] word = "feedback"   -> "Feedback"
      [] word = "in"         -> "In"
      [] word = "simulation" -> "Simulation"
      [] word = "intent"     -> "Intent"
      [] word = "router"     -> "Router"
      [] OTHER               -> word

\* ''.join(word.capitalize() for word in agent_name.split('_')) + "PromptFactory"
FactoryClassName(agent_name) ==
    [i \in 1..Len(agent_name) |-> capitalize(agent_name[i])] \o <<"PromptFactory">>

\* the modules prompts.agents.<agent>.prompt_factory of the repository:
\* the class each defines, per prompt-building method the annotation of
\* its `request` parameter, and the names it imports from prompts.schemas
\* that prompts.schemas does not define (importing the module then raises
\* ImportError)
NoModule == [class |-> <<>>, methods |-> {}, request |-> [m \in {} |-> ""],
             missing_imports |-> {}]
FactoryModules ==
    [a \in Agents |->
        CASE a = <<"character", "helper">> ->
                [class   |-> <<"Character", "Helper", "PromptFactory">>,
                 methods |-> {"build_prompt_create", "build_prompt_edit"},
                 request |-> [m \in {"build_prompt_create", "build_prompt_edit"} |->
                                IF m = "build_prompt_create"
                                THEN "CharacterCreationRequest"
                                ELSE "CharacterEditRequest"],
                 missing_imports |-> {}]
          [] a = <<"scenario", "helper">> ->
                [class   |-> <<"Scenario", "Helper", "PromptFactory">>,
                 methods |-> {"build_prompt_create", "build_prompt_edit"},
                 request |-> [m \in {"build_prompt_create", "build_prompt_edit"} |->
                                IF m = "build_prompt_create"
                                THEN "ScenarioCreationRequest"
                                ELSE "ScenarioEditRequest"],
                 missing_imports |-> {}]
          [] a = <<"moderator">> ->
                [class   |-> <<"Moderator", "PromptFactory">>,
                 methods |-> {"build_prompt"},
                 request |-> [m \in {"build_prompt"} |-> "ScenarioModeratorInput"],
                 missing_imports |-> {"ScenarioModeratorInput", "ScenarioModeratorOutput"}]
          [] a = <<"scenario", "feedback">> ->
                [class   |-> <<"Scenario", "Feedback", "PromptFactory">>,
                 methods |-> {"build_prompt"},
                 request |-> [m \in {"build_prompt"} |-> "ScenarioFeedbackRequest"],
                 missing_imports |-> {}]
          [] a = <<"character", "in", "simulation">> ->
                [class   |-> <<"Character", "In", "Simulation", "PromptFactory">>,
                 methods |-> {"build_prompt"},
                 request |-> [m \in {"build_prompt"} |-> "CharacterInSimulationInput"],
                 missing_imports |-> {}]
          [] OTHER -> NoModule]

\* the agents that have a prompt factory in the repository
FactoryAgents == { a \in Agents : FactoryModules[a] # NoModule }

FactoryMethods == {"build_prompt_create", "build_prompt_edit", "build_prompt"}
\* the `inputs` mapping of the test case against the request schema:
\* "valid", "invalid" (pydantic ValidationError, a ValueError) or "none"
\* (no inputs key: SchemaClass(**None) is a TypeError)
InputKinds == {"valid", "invalid", "none"}

\* the test cases, each varying one part of the same base case: every agent
\* with every factory method, every model key, every kind of inputs (these
\* without assertions), and every list of assertions up to MaxAssertions
BaseAgent == <<"character", "helper">>
BaseModel == "gemini_flash_strict"
TestCase(agent, factory_method, model, inputs, n) ==
    [agent |-> agent, factory_method |-> factory_method, model |-> model,
     inputs |-> inputs, n |-> n]
TestCases ==
    { TestCase(a, m, BaseModel, "valid", 0) : a \in Agents, m \in FactoryMethods }
    \cup { TestCase(BaseAgent, "build_prompt_create", k, "valid", 0) : k \in ModelKeys }
    \cup { TestCase(BaseAgent, "build_prompt_edit", BaseModel, i, 0) : i \in InputKinds }
    \cup { TestCase(BaseAgent, "build_prompt_create", BaseModel, "valid", n) :
             n \in 0..MaxAssertions }

NoPrompts == [built |-> FALSE, agent |-> <<>>, method |-> "", schema |-> ""]

\* step 3 of run_evaluation (lines 163-191): the outcome of building the
\* prompt. "ok" with the prompts, "exit" for the exceptions the except
\* clause catches (ImportError, AttributeError, TypeError), "raise" for the
\* ones it does not (ValueError)
BuildPrompt(agent_name, factory_method_name, inputs) ==
    LET module == FactoryModules[agent_name] IN
    IF module = NoModule \/ module.missing_imports # {}
    THEN [out |-> "exit", err |-> "ImportError", prompts |-> NoPrompts]
    ELSE IF module.class # FactoryClassName(agent_name)
    THEN [out |-> "exit", err |-> "AttributeError", prompts |-> NoPrompts]
    ELSE IF factory_method_name \notin {"build_prompt_create", "build_prompt_edit"}
    THEN [out |-> "raise", err |-> "ValueError", prompts |-> NoPrompts]
    ELSE IF factory_method_name \notin module.methods
    THEN [out |-> "exit", err |-> "AttributeError", prompts |-> NoPrompts]
    ELSE IF inputs = "none"
    THEN [out |-> "exit", err |-> "TypeError", prompts |-> NoPrompts]
    ELSE IF inputs = "invalid"
    THEN [out |-> "raise", err |-> "ValidationError", prompts |-> NoPrompts]
    ELSE [out |-> "ok", err |-> "",
          prompts |-> [built |-> TRUE, agent |-> agent_name,
                       method |-> factory_method_name,
                       schema |-> module.request[factory_method_name]]]

\* ------------------------------------------------------------ test inputs
\* names defined in the module prompts.schemas (its __dict__); the ones the
\* assertions below can name
SchemaNames == {"CharacterSchema", "ChainOfThoughtCharacterSchema", "CritiqueScoreSchema"}

\* fields of CritiqueScoreSchema, and the other attributes every pydantic
\* BaseModel instance has (getattr finds them too)
CritiqueFields == {"creativity", "depth", "originality"}
BaseModelAttrs == {"model_dump"}
\* the metric names the thresholds use, in a cycle
MetricCycle == <<"creativity", "model_dump", "engagement">>
ThresholdValues == {5}
ScoreValues == {4, 5}

\* thresholds of an ai_critique assertion: a mapping, iterated in insertion
\* order, so a list of (metric, threshold) pairs with distinct metrics; the
\* lists are the runs of up to MaxThresholds consecutive metrics of the cycle
ThresholdLists ==
    UNION { { [i \in 1..n |->
                 [metric    |-> MetricCycle[((start + i - 2) % Len(MetricCycle)) + 1],
                  threshold |-> t]] :
                start \in 1..Len(MetricCycle), t \in ThresholdValues } :
            n \in { k \in 0..MaxThresholds : k <= Len(MetricCycle) } }

ExpectedLists == { <<>>, <<Str_a>>, <<Str_ba>>, <<Str_a, Str_ba>> }
\* the default critique model, and keys for the failures of get_client
DefaultCritiqueModel == "gemini_flash_strict"
CritiqueModelKeys == {DefaultCritiqueModel, "llama_local", "missing_model"}

Assertion(type, schema, expected, prompt_exists, thresholds, critique_model) ==
    [type |-> type, schema |-> schema, field |-> "name", expected |-> expected,
     prompt_exists |-> prompt_exists, thresholds |-> thresholds,
     critique_model |-> critique_model]
NoAssertion == Assertion("", "", <<>>, FALSE, <<>>, "")

Assertions ==
    { Assertion("is_valid_pydantic_schema", sc, <<>>, FALSE, <<>>, "") :
        sc \in {"CharacterSchema", "NoSuchSchema"} }
    \cup { Assertion(ty, "", ex, FALSE, <<>>, "") :
        ty \in {"field_contains", "field_not_contains"}, ex \in ExpectedLists }
    \cup { Assertion("ai_critique", "", <<>>, TRUE, th, DefaultCritiqueModel) :
        th \in ThresholdLists }
    \cup { Assertion("ai_critique", "", <<>>, TRUE, <<>>, ck) : ck \in CritiqueModelKeys }
    \cup { Assertion("ai_critique", "", <<>>, FALSE, <<>>, DefaultCritiqueModel) }
    \cup { Assertion("regex_match", "", <<>>, FALSE, <<>>, "") }

\* JSON documents the main model can answer with
ObjValid  == JV("object", FV("str", Str_ab, <<>>), {"CharacterSchema"}, NoScores)
ObjList   == JV("object", FV("list", <<>>, <<Str_ab>>), {}, NoScores)
ObjNum    == JV("object", FV("num", <<>>, <<>>), {}, NoScores)
ObjNoName == JV("object", AbsentFV, {}, NoScores)
JsonArray == JV("array", AbsentFV, {}, NoScores)

\* texts the main model can return
Responses ==
    { <<JsonTok(o)>> : o \in {ObjValid, ObjList, ObjNum, ObjNoName, JsonArray} }
    \cup { <<OpenFence, JsonTok(ObjValid), CloseFence>>,
           <<Prose, OpenFence, JsonTok(ObjValid), CloseFence>>,
           <<Prose>> }

\* texts the critique model can return
ScoreObj(c) ==
    JV("object", AbsentFV, {"CritiqueScoreSchema"},
       [creativity |-> c, depth |-> c, originality |-> c])
CritiqueResponses ==
    { <<JsonTok(ScoreObj(c))>> : c \in ScoreValues }
    \cup { <<OpenFence, JsonTok(ScoreObj(c)), CloseFence>> : c \in ThresholdValues }
    \cup {
           <<JsonTok(ObjNoName)>>,
           <<Prose>> }

\* one line of assertion_results
Line(tag, msg, arg) == [tag |-> tag, msg |-> msg, arg |-> arg]

\* ------------------------------------------------------------------ state
VARIABLES
    pc,                     \* position in run_evaluation
    report,                 \* the --report flag
    test_case,              \* the loaded test case
    prompts,                \* the rendered prompts
    response_text,          \* the main model's answer
    idx,                    \* number of assertions taken from the list
    assertion,              \* the assertion being run
    all_assertions_passed,
    assertion_results,
    critique,               \* locals of the ai_critique branch
    clients,                \* clients constructed so far
    last_get_client,        \* last get_client call: its key and its outcome
    log,                    \* stages executed so far, in order
    report_files,           \* report files written
    error,                  \* exit code / exception that ended the run
    factory,                \* a prompt factory object used on its own
    builds,                 \* the build calls made on it, with what they returned
    main_pc,                \* position in main
    test_case_path,         \* main: its first argument
    test_case_dir,          \* main: the directory evaluations/test_cases
    test_case_files,        \* main: the .yaml files found, in listing order
    runs,                   \* main: the files run_evaluation was invoked with
    main_error,             \* main: exit code / exception that ended it
    md_text,                \* argument of a strip_markdown call
    md_stripped             \* whether it has been called, and what it returned

\* the variables of run_evaluation
runvars == <<pc, report, test_case, prompts, response_text, idx, assertion,
             all_assertions_passed, assertion_results, critique, clients,
             last_get_client, log, report_files, error>>

\* the variables run_evaluation does not touch
mainvars == <<main_pc, test_case_path, test_case_dir, test_case_files, runs,
              main_error>>
others == <<factory, builds, mainvars, md_text, md_stripped>>

vars == <<pc, report, test_case, prompts, response_text, idx, assertion,
          all_assertions_passed, assertion_results, critique, clients,
          last_get_client, log, report_files, error, others>>

NoTestCase == TestCase(<<>>, "", "", "", 0)
NoCritique == [client |-> Client("", ""), text |-> <<>>, scores |-> NoScores]
NoError    == [kind |-> "", code |-> 0]
NoFactory  == [agent |-> <<>>, cached_schema |-> "", error |-> ""]
NoText     == <<>>
NotCalled  == [called |-> FALSE, value |-> <<>>]
NoDir      == [exists |-> FALSE, listing |-> <<>>]

\* no factory is in use on its own
FactoryIdle ==
    /\ factory = NoFactory
    /\ builds = <<>>
\* main is not running
MainIdle ==
    /\ main_pc = "idle"
    /\ test_case_path = <<>>
    /\ test_case_dir = NoDir
    /\ test_case_files = <<>>
    /\ runs = <<>>
    /\ main_error = NoError
\* strip_markdown is not called on its own
StripIdle ==
    /\ md_text = NoText
    /\ md_stripped = NotCalled
\* nothing but run_evaluation is running
OthersIdle ==
    /\ FactoryIdle
    /\ MainIdle
    /\ StripIdle
Ev(ev, i)  == [ev |-> ev, i |-> i]

Init ==
    /\ pc = "start"
    /\ report \in BOOLEAN
    /\ test_case = NoTestCase
    /\ prompts = NoPrompts
    /\ response_text = <<>>
    /\ idx = 0
    /\ assertion = NoAssertion
    /\ all_assertions_passed = TRUE
    /\ assertion_results = <<>>
    /\ critique = NoCritique
    /\ clients = <<>>
    /\ last_get_client = Client("", "")
    /\ log = <<>>
    /\ report_files = <<>>
    /\ error = NoError
    /\ OthersIdle

\* raise typer.Exit(1)
Exit1 ==
    /\ pc' = "exit"
    /\ error' = [kind |-> "Exit", code |-> 1]

\* an exception no except clause of run_evaluation catches
Raise(kind) ==
    /\ pc' = "raised"
    /\ error' = [kind |-> kind, code |-> 0]

\* lines 137-153: open and parse the three YAML files, read the test case
LoadConfigs ==
    /\ pc = "start"
    /\ \E missing \in SUBSET {"models", "agents", "test_case"} :
          IF missing # {}
          THEN /\ Exit1
               /\ UNCHANGED <<test_case, log>>
          ELSE /\ \E tc \in TestCases : test_case' = tc
               /\ log' = Append(log, Ev("load", 0))
               /\ pc' = "loaded"
               /\ UNCHANGED error
    /\ UNCHANGED <<others, report, prompts, response_text, idx, assertion,
                   all_assertions_passed, assertion_results, critique, clients,
                   last_get_client, report_files>>

\* ResolveModel that reports a key without an entry and goes on
ResolveModel_lenient ==
    /\ pc = "loaded"
    /\ log' = Append(log, Ev("resolve", 0))
    /\ pc' = "resolved"
    /\ UNCHANGED error
    /\ UNCHANGED <<others, report, test_case, prompts, response_text, idx, assertion,
                   all_assertions_passed, assertion_results, critique, clients,
                   last_get_client, report_files>>

\* lines 155-161: look the model key up in the models config
ResolveModel ==
    /\ pc = "loaded"
    /\ IF ModelsYaml[test_case.model].entry # "info"
       THEN /\ Exit1
            /\ UNCHANGED log
       ELSE /\ log' = Append(log, Ev("resolve", 0))
            /\ pc' = "resolved"
            /\ UNCHANGED error
    /\ UNCHANGED <<others, report, test_case, prompts, response_text, idx, assertion,
                   all_assertions_passed, assertion_results, critique, clients,
                   last_get_client, report_files>>

\* RenderPrompt with an except clause that reports the error and goes on
RenderPrompt_swallow ==
    /\ pc = "resolved"
    /\ LET b == BuildPrompt(test_case.agent, test_case.factory_method, test_case.inputs) IN
         CASE b.out = "ok"    -> /\ prompts' = b.prompts
                                 /\ log' = Append(log, Ev("render", 0))
                                 /\ pc' = "built"
                                 /\ UNCHANGED error
           [] b.out = "exit"  -> /\ pc' = "built"
                                 /\ UNCHANGED <<prompts, log, error>>
           [] b.out = "raise" -> /\ Raise(b.err)
                                 /\ UNCHANGED <<prompts, log>>
    /\ UNCHANGED <<others, report, test_case, response_text, idx, assertion,
                   all_assertions_passed, assertion_results, critique, clients,
                   last_get_client, report_files>>

\* lines 163-191: import the factory, derive the request schema, render
RenderPrompt ==
    /\ pc = "resolved"
    /\ LET b == BuildPrompt(test_case.agent, test_case.factory_method, test_case.inputs) IN
         CASE b.out = "ok"    -> /\ prompts' = b.prompts
                                 /\ log' = Append(log, Ev("render", 0))
                                 /\ pc' = "built"
                                 /\ UNCHANGED error
           [] b.out = "exit"  -> /\ Exit1
                                 /\ UNCHANGED <<prompts, log>>
           [] b.out = "raise" -> /\ Raise(b.err)
                                 /\ UNCHANGED <<prompts, log>>
    /\ UNCHANGED <<others, report, test_case, response_text, idx, assertion,
                   all_assertions_passed, assertion_results, critique, clients,
                   last_get_client, report_files>>

\* CallModel with one retry of a failed generate
CallModel_retry ==
    /\ pc = "built"
    /\ LET c == get_client(ModelsYaml, test_case.model) IN
       /\ last_get_client' = c
       /\ IF c.kind \notin ClientKinds
          THEN /\ Exit1
               /\ log' = Append(log, Ev("get_client", 0))
               /\ UNCHANGED <<clients, response_text>>
          ELSE /\ clients' = Append(clients, c)
               /\ \E r \in Responses : response_text' = r
               /\ \/ log' = log \o <<Ev("get_client", 0), Ev("generate", 0),
                                     Ev("response", 0)>>
                  \/ log' = log \o <<Ev("get_client", 0), Ev("generate", 0),
                                     Ev("generate_failed", 0), Ev("generate", 0),
                                     Ev("response", 0)>>
               /\ pc' = "loop"
               /\ UNCHANGED error
    /\ idx' = 0
    /\ all_assertions_passed' = TRUE
    /\ assertion_results' = <<>>
    /\ UNCHANGED <<others, report, test_case, prompts, assertion, critique, report_files>>

\* lines 193-215: get the client, call the model once, start the assertions
CallModel ==
    /\ pc = "built"
    /\ LET c == get_client(ModelsYaml, test_case.model) IN
       /\ last_get_client' = c
       /\ IF c.kind \notin ClientKinds
          THEN /\ Exit1
               /\ log' = Append(log, Ev("get_client", 0))
               /\ UNCHANGED <<clients, response_text>>
          ELSE /\ clients' = Append(clients, c)
               /\ \/ /\ \E r \in Responses : response_text' = r
                     /\ log' = log \o <<Ev("get_client", 0), Ev("generate", 0),
                                        Ev("response", 0)>>
                     /\ pc' = "loop"
                     /\ UNCHANGED error
                  \/ /\ Exit1
                     /\ log' = log \o <<Ev("get_client", 0), Ev("generate", 0),
                                        Ev("generate_failed", 0)>>
                     /\ UNCHANGED response_text
    /\ idx' = 0
    /\ all_assertions_passed' = TRUE
    /\ assertion_results' = <<>>
    /\ UNCHANGED <<others, report, test_case, prompts, assertion, critique, report_files>>

\* ------------------------------------------------------ the assertion loop
\* variables no branch of the loop body assigns
LoopFrame == UNCHANGED <<others, report, test_case, prompts, response_text, idx, report_files>>

\* the assertion has been handled: back to the head of the for loop. The
\* loop variable and the locals of the ai_critique branch are dead from here
\* on (each is assigned again before it is read), so they are cleared
EndAssertion ==
    /\ pc' = "loop"
    /\ assertion' = NoAssertion
    /\ critique' = NoCritique
    /\ UNCHANGED error

\* an exception leaves the loop body: nothing is recorded
Propagate(kind) ==
    /\ Raise(kind)
    /\ UNCHANGED <<assertion, critique, assertion_results, all_assertions_passed>>

\* append one [PASS] line
RecordPass(line) ==
    /\ assertion_results' = Append(assertion_results, line)
    /\ UNCHANGED all_assertions_passed

\* append one [FAIL] line and mark the run failed
RecordFail(line) ==
    /\ assertion_results' = Append(assertion_results, line)
    /\ all_assertions_passed' = FALSE

\* lines 217-219: take the next assertion of test_case["assertions"]; the list
\* is an input that is read one element per iteration
NextAssertion ==
    /\ pc = "loop"
    /\ idx < test_case.n
    /\ \E a \in Assertions : assertion' = a
    /\ idx' = idx + 1
    /\ pc' = "dispatch"
    /\ log' = Append(log, Ev("assert", idx + 1))
    /\ UNCHANGED <<others, report, test_case, prompts, response_text,
                   all_assertions_passed, assertion_results, critique, clients,
                   last_get_client, report_files, error>>

\* the if / elif chain of lines 222-280
AssertionKinds == {"is_valid_pydantic_schema", "field_contains",
                   "field_not_contains", "ai_critique"}

\* validation of the raw text, markdown fence included
ValidatesAgainst_raw(text, schema) ==
    /\ schema \in SchemaNames
    /\ json_parses(text)
    /\ schema \in json_loads(text).conforms

\* SchemaToValidate.model_validate_json(strip_markdown(response_text)),
\* after the lookup of the class in prompts.schemas.__dict__
ValidatesAgainst(text, schema) ==
    /\ schema \in SchemaNames
    /\ json_parses(strip_markdown(text))
    /\ schema \in json_loads(strip_markdown(text)).conforms

\* lines 222-234
AssertSchema ==
    /\ pc = "dispatch"
    /\ assertion.type = "is_valid_pydantic_schema"
    /\ IF ValidatesAgainst(response_text, assertion.schema)
       THEN RecordPass(Line("PASS", "validates", assertion.schema))
       ELSE RecordFail(Line("FAIL", "Pydantic validation failed", assertion.schema))
    /\ EndAssertion
    /\ LoopFrame
    /\ UNCHANGED <<clients, last_get_client, log>>

\* Python `val in field_value`: substring of a str, member of a list;
\* any other field value raises TypeError
InSupported(field_value) == field_value.t \in {"str", "list"}
In(val, field_value) ==
    IF field_value.t = "str"
    THEN IsSubstring(val, field_value.s)
    ELSE \E i \in 1..Len(field_value.l) : field_value.l[i] = val

\* response_json.get(field, "")
GetField(response_json, field) ==
    IF response_json.name.t = "absent"
    THEN FV("str", <<>>, <<>>)
    ELSE response_json.name

\* all(val in field_value for val in expected_values)
AllIn(expected_values, field_value) ==
    \A i \in 1..Len(expected_values) : In(expected_values[i], field_value)
\* not any(val in field_value for val in unexpected_values)
NoneIn(unexpected_values, field_value) ==
    ~ \E i \in 1..Len(unexpected_values) : In(unexpected_values[i], field_value)

\* the common shape of lines 236-256 and 258-278
AssertField(type, pass_msg, fail_msg) ==
    /\ pc = "dispatch"
    /\ assertion.type = type
    /\ LET text == strip_markdown(response_text) IN
       IF ~json_parses(text)
       THEN /\ RecordFail(Line("FAIL", "Could not parse LLM response as JSON", ""))
            /\ EndAssertion
       ELSE IF json_loads(text).kind # "object"
       THEN Propagate("AttributeError")
       ELSE LET field_value == GetField(json_loads(text), assertion.field) IN
            IF assertion.expected # <<>> /\ ~InSupported(field_value)
            THEN Propagate("TypeError")
            ELSE IF (IF type = "field_contains"
                     THEN AllIn(assertion.expected, field_value)
                     ELSE NoneIn(assertion.expected, field_value))
            THEN /\ RecordPass(Line("PASS", pass_msg, assertion.field))
                 /\ EndAssertion
            ELSE /\ RecordFail(Line("FAIL", fail_msg, assertion.field))
                 /\ EndAssertion
    /\ LoopFrame
    /\ UNCHANGED <<clients, last_get_client, log>>

\* lines 236-256
AssertFieldContains ==
    AssertField("field_contains",
                "contains expected values", "did not contain all expected values")

\* lines 258-278
AssertFieldNotContains ==
    AssertField("field_not_contains",
                "does not contain unexpected values", "contained unexpected values")

\* AssertOther with a final else branch that reports the unknown type
AssertOther_else ==
    /\ pc = "dispatch"
    /\ assertion.type \notin AssertionKinds
    /\ RecordFail(Line("FAIL", "Unknown assertion type", assertion.type))
    /\ EndAssertion
    /\ LoopFrame
    /\ UNCHANGED <<clients, last_get_client, log>>

\* an assertion type none of the branches matches: the loop body does nothing
AssertOther ==
    /\ pc = "dispatch"
    /\ assertion.type \notin AssertionKinds
    /\ EndAssertion
    /\ LoopFrame
    /\ UNCHANGED <<all_assertions_passed, assertion_results, clients,
                   last_get_client, log>>

\* ------------------------------------------------------------- ai_critique
\* the branch goes on with its next statement
CritiqueGoesOn(next_pc) ==
    /\ pc' = next_pc
    /\ UNCHANGED <<assertion, assertion_results, all_assertions_passed, error>>

\* the except clauses of lines 337-346: one [FAIL] line, the run is failed,
\* the rest of the branch is skipped
CritiqueFails(line) ==
    /\ RecordFail(line)
    /\ EndAssertion

CritiqueError(kind) == Line("FAIL", "AI critique failed with an error", kind)

\* lines 282-288: read the critique prompt file
CritiqueLoadPrompt ==
    /\ pc = "dispatch"
    /\ assertion.type = "ai_critique"
    /\ IF assertion.prompt_exists
       THEN /\ CritiqueGoesOn("crit_client")
            /\ UNCHANGED critique
       ELSE CritiqueFails(Line("FAIL", "Critique prompt file not found", ""))
    /\ log' = Append(log, Ev("crit_prompt", idx))
    /\ LoopFrame
    /\ UNCHANGED <<clients, last_get_client>>

\* line 291: critique_client = llm_factory.get_client(critique_model_key)
CritiqueGetClient ==
    /\ pc = "crit_client"
    /\ LET c == get_client(ModelsYaml, assertion.critique_model) IN
       /\ last_get_client' = c
       /\ IF c.kind \in ClientKinds
          THEN /\ critique' = [critique EXCEPT !.client = c]
               /\ clients' = Append(clients, c)
               /\ CritiqueGoesOn("crit_parse")
          ELSE /\ CritiqueFails(CritiqueError(c.kind))
               /\ UNCHANGED clients
    /\ log' = Append(log, Ev("crit_get_client", idx))
    /\ LoopFrame

\* CritiqueParseMain that sends the raw answer on when it does not parse
CritiqueParseMain_lenient ==
    /\ pc = "crit_parse"
    /\ LET text == strip_markdown(response_text) IN
       IF ~json_parses(text) \/ json_loads(text).kind # "object"
       THEN /\ CritiqueGoesOn("crit_call")
            /\ UNCHANGED critique
            /\ log' = Append(log, Ev("crit_parse_failed", idx))
       ELSE /\ CritiqueGoesOn("crit_call")
            /\ UNCHANGED critique
            /\ log' = Append(log, Ev("crit_parse", idx))
    /\ LoopFrame
    /\ UNCHANGED <<clients, last_get_client>>

\* lines 293-300: parse the main model's answer, fill the critique prompt
CritiqueParseMain ==
    /\ pc = "crit_parse"
    /\ LET text == strip_markdown(response_text) IN
       IF ~json_parses(text)
       THEN /\ CritiqueFails(CritiqueError("JSONDecodeError"))
            /\ log' = Append(log, Ev("crit_parse_failed", idx))
       ELSE IF json_loads(text).kind # "object"
       THEN /\ CritiqueFails(CritiqueError("AttributeError"))
            /\ log' = Append(log, Ev("crit_parse_failed", idx))
       ELSE /\ CritiqueGoesOn("crit_call")
            /\ UNCHANGED critique
            /\ log' = Append(log, Ev("crit_parse", idx))
    /\ LoopFrame
    /\ UNCHANGED <<clients, last_get_client>>

\* lines 302-307: call the critique model once
CritiqueGenerate ==
    /\ pc = "crit_call"
    /\ \/ /\ \E r \in CritiqueResponses : critique' = [critique EXCEPT !.text = r]
          /\ CritiqueGoesOn("crit_validate")
          /\ log' = log \o <<Ev("crit_generate", idx), Ev("crit_response", idx)>>
       \/ /\ CritiqueFails(CritiqueError("APIError"))
          /\ log' = log \o <<Ev("crit_generate", idx), Ev("crit_generate_failed", idx)>>
    /\ LoopFrame
    /\ UNCHANGED <<clients, last_get_client>>

\* lines 309-312: CritiqueScoreSchema.model_validate_json(strip_markdown(...))
CritiqueValidate ==
    /\ pc = "crit_validate"
    /\ IF ValidatesAgainst(critique.text, "CritiqueScoreSchema")
       THEN /\ critique' = [critique EXCEPT
                               !.scores = json_loads(strip_markdown(critique.text)).scores]
            /\ CritiqueGoesOn("crit_check")
            /\ log' = Append(log, Ev("crit_validate", idx))
       ELSE /\ CritiqueFails(CritiqueError("ValidationError"))
            /\ log' = Append(log, Ev("crit_validate_failed", idx))
    /\ LoopFrame
    /\ UNCHANGED <<clients, last_get_client>>

\* getattr(critique_scores, metric, None): "int" for a field of the schema,
\* "other" for another attribute of the model object, "none" otherwise
GetAttr(metric) ==
    IF metric \in CritiqueFields THEN "int"
    ELSE IF metric \in BaseModelAttrs THEN "other"
    ELSE "none"

\* the loop of lines 316-332 from pair i on: the lines appended, whether
\* scores_passed is still true, and whether `score >= threshold` raised
RECURSIVE CheckThresholds(_, _, _, _)
CheckThresholds(scores, thresholds, i, acc) ==
    IF i > Len(thresholds) THEN acc
    ELSE LET metric    == thresholds[i].metric
             threshold == thresholds[i].threshold
         IN  CASE GetAttr(metric) = "none" ->
                    CheckThresholds(scores, thresholds, i + 1,
                        [acc EXCEPT !.lines = Append(@, Line("FAIL", "not found in critique response", metric)),
                                    !.scores_passed = FALSE])
               [] GetAttr(metric) = "other" ->
                    [acc EXCEPT !.raised = TRUE]
               [] OTHER ->
                    IF scores[metric] >= threshold
                    THEN CheckThresholds(scores, thresholds, i + 1,
                            [acc EXCEPT !.lines = Append(@, Line("PASS", ">=", metric))])
                    ELSE CheckThresholds(scores, thresholds, i + 1,
                            [acc EXCEPT !.lines = Append(@, Line("FAIL", "<", metric)),
                                        !.scores_passed = FALSE])

\* lines 314-335, and the except clause of line 342 when a comparison raises
CritiqueThresholds ==
    /\ pc = "crit_check"
    /\ LET r == CheckThresholds(critique.scores, assertion.thresholds, 1,
                                [lines |-> <<>>, scores_passed |-> TRUE, raised |-> FALSE])
       IN  IF r.raised
           THEN /\ assertion_results' =
                       (assertion_results \o r.lines) \o <<CritiqueError("TypeError")>>
                /\ all_assertions_passed' = FALSE
           ELSE /\ assertion_results' = assertion_results \o r.lines
                /\ all_assertions_passed' = (all_assertions_passed /\ r.scores_passed)
    /\ EndAssertion
    /\ log' = Append(log, Ev("crit_check", idx))
    /\ LoopFrame
    /\ UNCHANGED <<clients, last_get_client>>

\* ------------------------------------------------------ summary and report
\* lines 348-352
Summary ==
    /\ pc = "loop"
    /\ idx >= test_case.n
    /\ pc' = "summary"
    /\ log' = Append(log, Ev("summary", 0))
    /\ UNCHANGED <<others, report, test_case, prompts, response_text, idx, assertion,
                   all_assertions_passed, assertion_results, critique, clients,
                   last_get_client, report_files, error>>

\* os.path.splitext(os.path.basename(test_case_path))[0] of the run
TestCaseName == "character_create"

\* generate_report that lists the results last first
generate_report_reversed(test_case_name, model_id, llm_output, results) ==
    [title      |-> test_case_name,
     model_id   |-> model_id,
     llm_output |-> <<OpenFence>> \o llm_output \o <<CloseFence>>,
     assertions |-> [i \in 1..Len(results) |->
                        [bullet |-> "- ", result |-> results[Len(results) + 1 - i]]]]

\* generate_report: the title, the model id, the fenced LLM output and the
\* "## Assertions" section with one "- <result>" item per recorded result
generate_report(test_case_name, model_id, llm_output, results) ==
    [title      |-> test_case_name,
     model_id   |-> model_id,
     llm_output |-> <<OpenFence>> \o llm_output \o <<CloseFence>>,
     assertions |-> [i \in 1..Len(results) |-> [bullet |-> "- ", result |-> results[i]]]]

\* lines 354-370
WriteReport ==
    /\ pc = "summary"
    /\ IF report
       THEN /\ report_files' = Append(report_files,
                    generate_report(TestCaseName, test_case.model,
                                    response_text, assertion_results))
            /\ log' = Append(log, Ev("report", 0))
       ELSE UNCHANGED <<report_files, log>>
    /\ pc' = "done"
    /\ UNCHANGED <<others, report, test_case, prompts, response_text, idx, assertion,
                   all_assertions_passed, assertion_results, critique, clients,
                   last_get_client, error>>

Next ==
    \/ LoadConfigs
    \/ ResolveModel
    \/ RenderPrompt
    \/ CallModel
    \/ NextAssertion
    \/ AssertSchema
    \/ AssertFieldContains
    \/ AssertFieldNotContains
    \/ AssertOther
    \/ CritiqueLoadPrompt
    \/ CritiqueGetClient
    \/ CritiqueParseMain
    \/ CritiqueGenerate
    \/ CritiqueValidate
    \/ CritiqueThresholds
    \/ Summary
    \/ WriteReport

Spec == Init /\ [][Next]_vars

TypeOK ==
    /\ pc \in {"start", "loaded", "resolved", "built", "loop", "dispatch",
               "crit_client", "crit_parse", "crit_call", "crit_validate",
               "crit_check", "summary", "done", "exit", "raised"}
    /\ report \in BOOLEAN
    /\ idx \in 0..MaxAssertions
    /\ all_assertions_passed \in BOOLEAN
    /\ Len(report_files) <= 1

\* ------------------------------------------- the prompt factories, directly
\* most build calls made on one factory object
MaxBuilds == 3

\* the schema class whose model_json_schema() each __init__ caches
OutputSchema ==
    [a \in FactoryAgents |->
        CASE a = <<"character", "helper">>           -> "ChainOfThoughtCharacterSchema"
          [] a = <<"scenario", "helper">>            -> "ChainOfThoughtScenarioSchema"
          [] a = <<"moderator">>                     -> "ScenarioModeratorOutput"
          [] a = <<"scenario", "feedback">>          -> "ScenarioFeedbackSchema"
          [] a = <<"character", "in", "simulation">> -> "CharacterInSimulationOutput"]

\* SchemaClass.model_json_schema(): the JSON schema of the class
model_json_schema(class) == [title |-> class]
\* json.dumps(value, indent=2): the value as text
json_dumps(value) == [dumps |-> value]

\* request objects of a request class: two different ones of each class
RequestValues == {"r1", "r2"}
Request(class, v) == [class |-> class, v |-> v]
\* request.model_dump(): the fields as a mapping
model_dump(request) == [fields |-> request.v]

\* the keyword the schema is passed to the system template under
SchemaVariable(agent) ==
    IF agent = <<"scenario", "feedback">> THEN "schema_json" ELSE "output_schema"

\* the variables a template prints: a system template prints the schema it
\* is given and the request fields, a user template the request fields
TemplateVariables(template) ==
    IF template.kind = "system"
    THEN {SchemaVariable(template.agent), "fields"}
    ELSE {"fields"}

Template(agent, kind, file) == [agent |-> agent, kind |-> kind, file |-> file]

\* template.render(**context): the text of the template with the values of
\* the variables it prints; tail is how the text ends
Render(template, context) ==
    [template |-> template,
     values   |-> [k \in (TemplateVariables(template) \cap DOMAIN context) |-> context[k]],
     tail     |-> "as rendered"]
\* a string literal
Literal(string) ==
    [template |-> Template(<<>>, "", ""), values |-> [k \in {} |-> ""], tail |-> string]
\* rendered.strip() + ending
StripPlus(rendered, ending) == [rendered EXCEPT !.tail = ending]

\* FactoryClass(): the object, or the ImportError of its module
Construct(agent) ==
    IF FactoryModules[agent].missing_imports # {}
    THEN [agent |-> agent, cached_schema |-> "", error |-> "ImportError"]
    ELSE [agent |-> agent, cached_schema |-> model_json_schema(OutputSchema[agent]),
          error |-> ""]

\* get_system_prompt / get_system_prompt_create / get_system_prompt_edit
get_system_prompt(self, file) ==
    Render(Template(self.agent, "system", file),
           [output_schema |-> json_dumps(self.cached_schema)])

\* build_prompt_create / build_prompt_edit / build_prompt of the factory of
\* self.agent: the record the method returns
build_prompt(self, method, request) ==
    LET a      == self.agent
        dump   == model_dump(request)
        schema == json_dumps(self.cached_schema)
    IN  CASE method = "build_prompt_create" ->
                [system |-> get_system_prompt(self, "_system.j2"),
                 user   |-> StripPlus(Render(Template(a, "user", "_user.j2"), dump), "\n")]
          [] method = "build_prompt_edit" ->
                [system |-> get_system_prompt(self, "_system_edit.j2"),
                 user   |-> StripPlus(Render(Template(a, "user", "_user_edit.j2"), dump), "\n")]
          [] a = <<"moderator">> ->
                [system |-> Render(Template(a, "system", "_system.j2"),
                                   [output_schema |-> schema] @@ dump),
                 user   |-> StripPlus(Render(Template(a, "user", "_user.j2"), dump), "\n")]
          [] a = <<"scenario", "feedback">> ->
                [system |-> StripPlus(Render(Template(a, "system", "_system.j2"),
                                             dump @@ [schema_json |-> schema]), "\n"),
                 user   |-> Literal("Produce ONLY the JSON now.")]
          [] OTHER ->
                [system |-> get_system_prompt(self, "_system.j2"),
                 user   |-> StripPlus(Render(Template(a, "user", "_user.j2"), dump), "\\n")]

\* run_evaluation is not running
RunIdle ==
    /\ pc = "idle"
    /\ report = FALSE
    /\ test_case = NoTestCase
    /\ prompts = NoPrompts
    /\ response_text = <<>>
    /\ idx = 0
    /\ assertion = NoAssertion
    /\ all_assertions_passed = TRUE
    /\ assertion_results = <<>>
    /\ critique = NoCritique
    /\ clients = <<>>
    /\ last_get_client = Client("", "")
    /\ log = <<>>
    /\ report_files = <<>>
    /\ error = NoError

FactoryInit ==
    /\ RunIdle
    /\ OthersIdle

\* import the module of an agent and construct its factory
ConstructFactory ==
    /\ factory = NoFactory
    /\ \E a \in FactoryAgents : factory' = Construct(a)
    /\ UNCHANGED <<runvars, builds, mainvars, md_text, md_stripped>>

\* one call of a prompt-building method on the factory, with a request of
\* the class the method is annotated with; no method assigns an attribute
CallBuild(method) ==
    /\ factory # NoFactory
    /\ factory.error = ""
    /\ method \in FactoryModules[factory.agent].methods
    /\ Len(builds) < MaxBuilds
    /\ \E v \in RequestValues :
          LET request == Request(FactoryModules[factory.agent].request[method], v) IN
          builds' = Append(builds, [method  |-> method, request |-> request,
                                    prompts |-> build_prompt(factory, method, request)])
    /\ UNCHANGED <<runvars, factory, mainvars, md_text, md_stripped>>

BuildPromptCreate == CallBuild("build_prompt_create")
BuildPromptEdit   == CallBuild("build_prompt_edit")
BuildPromptPlain  == CallBuild("build_prompt")

FactoryNext ==
    \/ ConstructFactory
    \/ BuildPromptCreate
    \/ BuildPromptEdit
    \/ BuildPromptPlain

FactorySpec == FactoryInit /\ [][FactoryNext]_vars

\* -------------------------------------------------------------------- main
\* most entries of the directory evaluations/test_cases
MaxFiles == 2

\* str.lower on the characters that occur in the paths
LowerChar(c) ==
    CASE c = "A" -> "a"
      [] c = "L" -> "l"
      [] OTHER   -> c
lower(string) == [i \in 1..Len(string) |-> LowerChar(string[i])]

\* values of the test_case_path argument: "all" in several letter cases,
\* and paths of single files
Str_all == <<"a", "l", "l">>
TestCasePaths == { Str_all, <<"A", "L", "L">>, <<"A", "l", "l">>,
                   <<"a", "l", "l", "1">>, <<"t", "1">> }

\* directory entries: a name and its extension
Entry(stem, ext) == [stem |-> stem, ext |-> ext]
Entries == { Entry("a", ".yaml"), Entry("b", ".yaml"), Entry("notes", ".txt") }
\* f.endswith(".yaml")
EndsWithYaml(f) == f.ext = ".yaml"

\* os.listdir results: the entries in any order, without repetition
Listings ==
    UNION { { l \in [1..n -> Entries] : \A i, j \in 1..n : i # j => l[i] # l[j] } :
            n \in 0..MaxFiles }
TestCaseDirs == { NoDir } \cup { [exists |-> TRUE, listing |-> l] : l \in Listings }

\* [f for f in listing if f.endswith(".yaml")]
RECURSIVE YamlFiles(_)
YamlFiles(listing) ==
    IF listing = <<>> THEN <<>>
    ELSE IF EndsWithYaml(Head(listing))
         THEN <<Head(listing)>> \o YamlFiles(Tail(listing))
         ELSE YamlFiles(Tail(listing))

\* how a call of run_evaluation ends: it returns, raises typer.Exit(1), or
\* lets another exception out
RunOutcomes == {"returned", "exit", "raised"}

MainInit ==
    /\ RunIdle
    /\ FactoryIdle
    /\ StripIdle
    /\ main_pc = "start"
    /\ test_case_path \in TestCasePaths
    /\ test_case_dir \in TestCaseDirs
    /\ test_case_files = <<>>
    /\ runs = <<>>
    /\ main_error = NoError

MainFrame == UNCHANGED <<runvars, factory, builds, md_text, md_stripped,
                         test_case_path, test_case_dir>>

\* lines 385-395: the branch on test_case_path, the listing of the directory
MainListFiles ==
    /\ main_pc = "start"
    /\ IF lower(test_case_path) = Str_all
       THEN IF ~test_case_dir.exists
            THEN /\ main_pc' = "exit"
                 /\ main_error' = [kind |-> "Exit", code |-> 1]
                 /\ UNCHANGED test_case_files
            ELSE /\ test_case_files' = YamlFiles(test_case_dir.listing)
                 /\ main_pc' = IF YamlFiles(test_case_dir.listing) = <<>>
                               THEN "returned" ELSE "loop"
                 /\ UNCHANGED main_error
       ELSE /\ main_pc' = "single"
            /\ UNCHANGED <<test_case_files, main_error>>
    /\ UNCHANGED runs
    /\ MainFrame

\* the call run_evaluation(file, ...) inside main: an exception of the call
\* leaves main
CallRunEvaluation(file, next_pc) ==
    \E outcome \in RunOutcomes :
        /\ runs' = Append(runs, [file |-> file, outcome |-> outcome])
        /\ CASE outcome = "returned" -> /\ main_pc' = next_pc
                                        /\ UNCHANGED main_error
             [] outcome = "exit"     -> /\ main_pc' = "exit"
                                        /\ main_error' = [kind |-> "Exit", code |-> 1]
             [] outcome = "raised"   -> /\ main_pc' = "raised"
                                        /\ main_error' = [kind |-> "Exception", code |-> 0]

\* lines 397-399: one iteration of the loop over test_case_files
MainRunNext ==
    /\ main_pc = "loop"
    /\ Len(runs) < Len(test_case_files)
    /\ CallRunEvaluation(test_case_files[Len(runs) + 1], "loop")
    /\ UNCHANGED test_case_files
    /\ MainFrame

\* the loop is exhausted: main returns
MainLoopEnd ==
    /\ main_pc = "loop"
    /\ Len(runs) = Len(test_case_files)
    /\ main_pc' = "returned"
    /\ UNCHANGED <<test_case_files, runs, main_error>>
    /\ MainFrame

\* lines 400-401: the run of a single test case file
MainRunSingle ==
    /\ main_pc = "single"
    /\ CallRunEvaluation(test_case_path, "returned")
    /\ UNCHANGED test_case_files
    /\ MainFrame

MainNext ==
    \/ MainListFiles
    \/ MainRunNext
    \/ MainLoopEnd
    \/ MainRunSingle

MainSpec == MainInit /\ [][MainNext]_vars

\* ----------------------------------------------- strip_markdown, directly
\* longest text, in tokens
MaxTokens == 3

\* the texts strip_markdown is called with
Tokens == {OpenFence, PlainFence, CloseFence, Prose, JsonTok(ObjValid)}
Texts  == UNION { [1..n -> Tokens] : n \in 0..MaxTokens }

StripInit ==
    /\ RunIdle
    /\ FactoryIdle
    /\ MainIdle
    /\ md_text \in Texts
    /\ md_stripped = NotCalled

\* the call strip_markdown(md_text)
CallStripMarkdown ==
    /\ ~md_stripped.called
    /\ md_stripped' = [called |-> TRUE, value |-> strip_markdown(md_text)]
    /\ UNCHANGED <<runvars, factory, builds, mainvars, md_text>>

StripNext == CallStripMarkdown

StripSpec == StripInit /\ [][StripNext]_vars

\* ================================================================= claims
\* positions of the log that hold event `name`
Events(name) == { i \in 1..Len(log) : log[i].ev = name }
\* the events a step appends to the log
NewEvents == { log'[i].ev : i \in (Len(log) + 1)..Len(log') }
\* the lines a step appends to assertion_results
NewLines == SubSeq(assertion_results', Len(assertion_results) + 1, Len(assertion_results'))

\* the stage of run_evaluation an event belongs to: 1 load, 2 resolve the
\* model key, 3 render the prompt, 4 call the provider, 5 run the assertions,
\* 6 write the report
StageOf(ev) ==
    CASE ev = "load"    -> 1
      [] ev = "resolve" -> 2
      [] ev = "render"  -> 3
      [] ev \in {"get_client", "generate", "response", "generate_failed"} -> 4
      [] ev = "report"  -> 6
      [] OTHER          -> 5
\* the event that marks the successful end of a stage
Completed(stage) ==
    CASE stage = 1 -> "load"
      [] stage = 2 -> "resolve"
      [] stage = 3 -> "render"
      [] stage = 4 -> "response"
      [] OTHER     -> "summary"

\* C1: the stages of run_evaluation run in the order load, resolve, render,
\* call provider, assertions, report: the first event is of stage 1, stages
\* never go back, and a stage starts only right after the event that marks
\* the successful end of the stage before it (so every earlier stage has
\* completed); the provider is called only with a rendered prompt and
\* assertions run only on a returned response.
C1_StageOrder ==
    /\ log # <<>> => StageOf(log[1].ev) = 1
    /\ \A j \in 2..Len(log) :
          LET before == StageOf(log[j - 1].ev)
              here   == StageOf(log[j].ev)
          IN  \/ here = before
              \/ /\ here = before + 1
                 /\ log[j - 1].ev = Completed(before)
    /\ Events("generate") # {} => prompts.built
    /\ Events("assert") # {} => response_text \in Responses
    /\ Events("summary") # {} => Cardinality(Events("assert")) = test_case.n

\* a run that went through all six stages, with assertions
C1_Witness ==
    /\ pc = "done"
    /\ Events("report") # {}
    /\ Cardinality(Events("assert")) = MaxAssertions

\* C2: the main model's generate is invoked at most once per run and the
\* critique model's generate at most once per ai_critique assertion; no
\* generate follows a failed one in the same run / the same assertion.
C2_NoRetries ==
    /\ Cardinality(Events("generate")) <= 1
    /\ \A i, j \in Events("crit_generate") : log[i].i = log[j].i => i = j
    /\ \A i \in Events("generate_failed") : \A j \in Events("generate") : j < i
    /\ \A i \in Events("crit_generate_failed") : \A j \in Events("crit_generate") :
          log[j].i = log[i].i => j < i

\* a finished run in which a critique call failed and the next assertion
\* called the critique model again
C2_Witness ==
    /\ pc = "done"
    /\ \E i \in Events("crit_generate_failed") : \E j \in Events("crit_generate") : i < j

\* events that end an ai_critique branch with an error
CritiqueFailedEvents == {"crit_parse_failed", "crit_generate_failed", "crit_validate_failed"}

\* the order of the stages of the ai_critique assertions in a log
CritiqueOrder(l) ==
    /\ \A j \in { k \in 1..Len(l) : l[k].ev = "crit_generate" } :
          \E i \in 1..(j - 1) : l[i] = Ev("crit_parse", l[j].i)
    /\ \A j \in { k \in 1..Len(l) : l[k].ev = "crit_validate" } :
          \E i \in 1..(j - 1) : l[i] = Ev("crit_response", l[j].i)
    /\ \A j \in { k \in 1..Len(l) : l[k].ev = "crit_check" } :
          \E i \in 1..(j - 1) : l[i] = Ev("crit_validate", l[j].i)
    /\ \A i \in { k \in 1..Len(l) : l[k].ev \in CritiqueFailedEvents } :
          \A j \in (i + 1)..Len(l) : l[j].i # l[i].i

\* some metric of the thresholds is missing from the scores or below its threshold
SomeThresholdMissed(scores, thresholds) ==
    \E i \in 1..Len(thresholds) :
        \/ thresholds[i].metric \notin CritiqueFields
        \/ scores[thresholds[i].metric] < thresholds[i].threshold

\* C3: within an ai_critique assertion the critique model is called only
\* after the main answer parsed, the critique answer is validated only after
\* the call returned, thresholds are compared only after it validated; a
\* failed stage is followed by no later stage of that assertion, appends a
\* [FAIL] line and fails the run.
C3_CritiqueOrder ==
    [][ /\ CritiqueOrder(log')
        /\ (NewEvents \cap CritiqueFailedEvents # {}) =>
              /\ Len(NewLines) = 1
              /\ NewLines[1].tag = "FAIL"
              /\ all_assertions_passed' = FALSE
              /\ pc' = "loop"
        /\ (pc = "crit_check" /\ SomeThresholdMissed(critique.scores, assertion.thresholds)) =>
              /\ \E i \in 1..Len(NewLines) : NewLines[i].tag = "FAIL"
              /\ all_assertions_passed' = FALSE
      ]_vars

\* a finished run with one ai_critique that compared thresholds and one
\* whose critique answer did not validate
C3_Witness ==
    /\ pc = "done"
    /\ Events("crit_check") # {}
    /\ Events("crit_validate_failed") # {}

\* the step is the end of an assertion that appended exactly one line
OneLine(tag) ==
    /\ Len(NewLines) = 1
    /\ NewLines[1].tag = tag
    /\ pc' = "loop"

\* C4: an ai_critique whose critique answer validated passes exactly when
\* every metric of its thresholds is a score of the answer and reaches its
\* threshold; it appends exactly one line per metric, in order, and the line
\* of a metric that is not a field of CritiqueScoreSchema is a [FAIL].
C4_ThresholdLines ==
    [][ pc = "crit_check" =>
          LET th == assertion.thresholds IN
          /\ all_assertions_passed =>
                (all_assertions_passed' <=>
                    \A i \in 1..Len(th) :
                        /\ th[i].metric \in {"creativity", "depth", "originality"}
                        /\ critique.scores[th[i].metric] >= th[i].threshold)
          /\ Len(NewLines) = Len(th)
          /\ \A i \in 1..Len(th) :
                /\ NewLines[i].arg = th[i].metric
                /\ th[i].metric \notin {"creativity", "depth", "originality"} =>
                      NewLines[i].tag = "FAIL"
      ]_vars

\* C5: on an answer that parses (after strip_markdown) as a JSON object,
\* field_contains passes exactly when every expected value is contained in
\* the field's value, field_not_contains exactly when none is; an absent
\* field counts as the empty string; an answer that does not parse is a [FAIL].
C5_FieldContainment ==
    [][ (pc = "dispatch" /\ assertion.type \in {"field_contains", "field_not_contains"}) =>
          LET text == strip_markdown(response_text) IN
          IF Len(text) = 1 /\ text[1].k = "json"
          THEN text[1].v.kind = "object" =>
                 LET value == IF text[1].v.name.t = "absent"
                              THEN FV("str", <<>>, <<>>)
                              ELSE text[1].v.name
                     contained(i) == In(assertion.expected[i], value)
                     expected == IF assertion.type = "field_contains"
                                 THEN \A i \in 1..Len(assertion.expected) : contained(i)
                                 ELSE \A i \in 1..Len(assertion.expected) : ~contained(i)
                 IN  /\ expected <=> (OneLine("PASS") /\ all_assertions_passed' = all_assertions_passed)
                     /\ ~expected => (OneLine("FAIL") /\ all_assertions_passed' = FALSE)
          ELSE OneLine("FAIL") /\ all_assertions_passed' = FALSE
      ]_vars

\* C6: is_valid_pydantic_schema appends one [PASS] line exactly when the
\* named schema exists and the markdown-stripped answer validates against
\* it; otherwise it appends one [FAIL] line and fails the run; in both cases
\* the loop goes on.
C6_SchemaAssertion ==
    [][ (pc = "dispatch" /\ assertion.type = "is_valid_pydantic_schema") =>
          LET text  == strip_markdown(response_text)
              valid == /\ assertion.schema \in SchemaNames
                       /\ Len(text) = 1
                       /\ text[1].k = "json"
                       /\ assertion.schema \in text[1].v.conforms
          IN  /\ valid => (OneLine("PASS") /\ all_assertions_passed' = all_assertions_passed)
              /\ ~valid => (OneLine("FAIL") /\ all_assertions_passed' = FALSE)
              /\ NewLines[1].arg = assertion.schema
      ]_vars

\* a finished run on a fenced answer where the schema assertion passed and
\* one naming a schema that does not exist failed
C6_Witness ==
    /\ pc = "done"
    /\ Head(response_text).k = "open"
    /\ \E i, j \in 1..Len(assertion_results) :
          /\ assertion_results[i] = Line("PASS", "validates", "CharacterSchema")
          /\ assertion_results[j] = Line("FAIL", "Pydantic validation failed", "NoSuchSchema")

\* C7: only the four assertion kinds have an effect; an assertion of any
\* other type changes neither all_assertions_passed nor assertion_results,
\* constructs no client and calls no provider.
C7_UnknownSkipped ==
    [][ (pc = "dispatch" /\ assertion.type \notin
            {"is_valid_pydantic_schema", "field_contains", "field_not_contains", "ai_critique"}) =>
          /\ all_assertions_passed' = all_assertions_passed
          /\ assertion_results' = assertion_results
          /\ clients' = clients
          /\ log' = log
          /\ pc' = "loop"
      ]_vars

\* the first assertion had an unknown type and has been skipped
C7_Witness ==
    /\ pc = "loop"
    /\ idx = 1
    /\ log[Len(log)] = Ev("assert", 1)
    /\ assertion_results = <<>>
    /\ all_assertions_passed

\* C8: at most one report is written, only with the report flag set, only
\* after the summary and after every assertion; a finished run with the
\* flag set has written it, whether or not the assertions passed; its
\* Assertions section lists assertion_results in order, and
\* assertion_results only grows at its end.
C8_Report ==
    /\ [](/\ Len(report_files) <= 1
          /\ report_files # <<>> =>
                /\ report
                /\ pc = "done"
                /\ Events("summary") # {}
                /\ Cardinality(Events("assert")) = test_case.n
                /\ Len(report_files[1].assertions) = Len(assertion_results)
                /\ \A i \in 1..Len(assertion_results) :
                      report_files[1].assertions[i].result = assertion_results[i]
          /\ (pc = "done" /\ report) => Len(report_files) = 1
          /\ pc \in {"exit", "raised"} => report_files = <<>>)
    /\ [][ /\ Len(assertion_results') >= Len(assertion_results)
           /\ SubSeq(assertion_results', 1, Len(assertion_results)) = assertion_results
         ]_vars

\* a report of a failed run with two different result lines
C8_Witness ==
    /\ Len(report_files) = 1
    /\ ~all_assertions_passed
    /\ Len(assertion_results) >= 2
    /\ assertion_results[1] # assertion_results[2]

\* C9: get_client raises ValueError for a key that is not in the config,
\* then ValueError when the API-key variable is not set (also for an
\* unsupported provider), then returns a GoogleClient for "google", an
\* OpenAICompatibleClient for "openai", "mistral", "cerebras" and raises
\* NotImplementedError for any other provider; a client is constructed
\* exactly when one is returned.
C9_GetClient ==
    [][ (pc = "built" \/ pc = "crit_client") =>
          LET key  == IF pc = "built" THEN test_case.model ELSE assertion.critique_model
              info == ModelsYaml[key]
              out  == last_get_client'.kind
          IN  /\ last_get_client'.key = key
              /\ info.entry = "absent" => out = "ValueError"
              /\ (info.entry = "info" /\ info.api_key_env # NoEnvName
                    /\ info.api_key_env \notin EnvSet) => out = "ValueError"
              /\ (info.entry = "info" /\ info.api_key_env \in EnvSet) =>
                    out = IF info.provider = "google" THEN "GoogleClient"
                          ELSE IF info.provider \in {"openai", "mistral", "cerebras"}
                               THEN "OpenAICompatibleClient"
                               ELSE "NotImplementedError"
              /\ out \in {"GoogleClient", "OpenAICompatibleClient"} =>
                    clients' = Append(clients, last_get_client')
              /\ out \notin {"GoogleClient", "OpenAICompatibleClient"} =>
                    clients' = clients
      ]_vars

\* get_client was called for an unsupported provider whose key is not set
C9_Witness ==
    /\ last_get_client = Client("ValueError", "claude_nokey")
    /\ ModelsYaml["claude_nokey"].provider = "anthropic"
    /\ clients = <<>>

\* C10: when a run for an agent that has a prompt factory, with valid
\* inputs, ends while building the prompt, the cause is the choice of
\* factory_method: some factory_method value builds the prompt of that agent
\* and lets the run reach the provider call.
C10_EveryAgentResolves ==
    (/\ pc \in {"exit", "raised"}
     /\ Len(log) = 2
     /\ test_case.agent \in FactoryAgents
     /\ test_case.inputs = "valid")
    => \E m \in FactoryMethods : BuildPrompt(test_case.agent, m, "valid").out = "ok"

\* C11: every factory of the repository can be constructed, and its schema
\* is the JSON schema of its output class from then on; every build call
\* returns a record with exactly the keys "system" and "user" whose system
\* prompt prints that schema; two builds with the same method and the same
\* request return the same prompts.
C11_FactoryPrompts ==
    /\ factory # NoFactory =>
          /\ factory.error = ""
          /\ factory.cached_schema = model_json_schema(OutputSchema[factory.agent])
    /\ \A i \in 1..Len(builds) :
          LET p == builds[i].prompts IN
          /\ DOMAIN p = {"system", "user"}
          /\ \E k \in DOMAIN p.system.values \cap {"output_schema", "schema_json"} :
                p.system.values[k] =
                    json_dumps(model_json_schema(OutputSchema[factory.agent]))
    /\ \A i, j \in 1..Len(builds) :
          (builds[i].method = builds[j].method /\ builds[i].request = builds[j].request)
              => builds[i].prompts = builds[j].prompts

\* main has ended
MainEnded == main_pc \in {"returned", "exit", "raised"}

\* C12: with test_case_path "all" in any letter case, run_evaluation is
\* invoked one file after another in listing order, and when main has ended
\* it has been invoked exactly once for every .yaml file of the directory;
\* an empty directory returns with no run, a missing one exits with code 1.
C12_RunsAll ==
    lower(test_case_path) = Str_all =>
        /\ main_pc # "single"
        /\ Len(runs) <= Len(YamlFiles(test_case_dir.listing))
        /\ \A i \in 1..Len(runs) : runs[i].file = YamlFiles(test_case_dir.listing)[i]
        /\ MainEnded =>
              IF ~test_case_dir.exists
              THEN main_pc = "exit" /\ main_error.code = 1 /\ runs = <<>>
              ELSE /\ Len(runs) = Len(YamlFiles(test_case_dir.listing))
                   /\ YamlFiles(test_case_dir.listing) = <<>> => main_pc = "returned"

\* a fenced code block of markdown starts at position i of the text: an
\* opening fence, with or without a language tag, and a closing fence after it
BlockAt(t, i) ==
    /\ t[i].k \in {"open", "plain"}
    /\ \E j \in (i + 1)..Len(t) : t[j].k = "close"
\* the closing fence of the block that starts at i
BlockEnd(t, i) ==
    CHOOSE j \in (i + 1)..Len(t) :
        /\ t[j].k = "close"
        /\ \A m \in (i + 1)..(j - 1) : t[m].k # "close"

\* the text with every fenced code block replaced by its inner content, and
\* the number of blocks replaced
RECURSIVE WithoutBlocks(_)
WithoutBlocks(t) ==
    IF t = <<>> THEN <<>>
    ELSE IF BlockAt(t, 1)
         THEN SubSeq(t, 2, BlockEnd(t, 1) - 1)
                  \o WithoutBlocks(SubSeq(t, BlockEnd(t, 1) + 1, Len(t)))
         ELSE <<Head(t)>> \o WithoutBlocks(Tail(t))
RECURSIVE BlockCount(_)
BlockCount(t) ==
    IF t = <<>> THEN 0
    ELSE IF BlockAt(t, 1)
         THEN 1 + BlockCount(SubSeq(t, BlockEnd(t, 1) + 1, Len(t)))
         ELSE BlockCount(Tail(t))
FenceCount(t) == Cardinality({ i \in 1..Len(t) : t[i].k \in {"open", "plain", "close"} })

\* C13: strip_markdown replaces every fenced code block of its argument by
\* the block's inner content and leaves the text outside the blocks as it
\* is; none of the fences of those blocks remains; a text without a fenced
\* block is returned unchanged.
C13_StripsBlocks ==
    md_stripped.called =>
        /\ md_stripped.value = WithoutBlocks(md_text)
        /\ FenceCount(md_stripped.value) = FenceCount(md_text) - 2 * BlockCount(md_text)
        /\ BlockCount(md_text) = 0 => md_stripped.value = md_text

\* the run has rendered no prompt, constructed no client, called no
\* provider, run no assertion and written no report
NothingDone ==
    /\ ~prompts.built
    /\ clients = <<>>
    /\ report_files = <<>>
    /\ \A i \in 1..Len(log) : log[i].ev \in {"load", "resolve"}

\* C14: a load that fails on a missing file, and the lookup of a model key
\* that has no entry in the models config, end run_evaluation with
\* typer.Exit(1); nothing runs after it, and no prompt was rendered, no
\* provider called, no assertion run and no report written.
C14_EarlyExit ==
    [][ /\ pc # "exit"
        /\ (pc = "start" /\ "load" \notin NewEvents) =>
              (pc' = "exit" /\ error' = [kind |-> "Exit", code |-> 1] /\ NothingDone')
        /\ (pc = "loaded" /\ ModelsYaml[test_case.model].entry = "absent") =>
              (pc' = "exit" /\ error' = [kind |-> "Exit", code |-> 1] /\ NothingDone')
      ]_vars

\* the run of a test case whose model key is not in the config has ended
\* with exit code 1 right after the load
C14_Witness ==
    /\ pc = "exit"
    /\ error.code = 1
    /\ log = <<Ev("load", 0)>>
    /\ ModelsYaml[test_case.model].entry = "absent"

\* C15: every failure while building the prompt ends run_evaluation with
\* typer.Exit(1) from the except clause that reports "Error building
\* prompt", and no client is constructed and no provider called.
C15_BuildFailureExits ==
    [][ (pc = "resolved"
           /\ BuildPrompt(test_case.agent, test_case.factory_method,
                          test_case.inputs).out # "ok") =>
          /\ pc' = "exit"
          /\ error' = [kind |-> "Exit", code |-> 1]
          /\ NothingDone'
      ]_vars

\* C16: typer.Exit(1) is raised only by the four stages before the
\* assertions; a run in which an assertion has failed does not end in an
\* exit or an exception: it ends by returning, after the summary, with the
\* report written if it was requested.
C16_ExitOnlyFatal ==
    /\ pc = "exit" => (error.code = 1 /\ Events("assert") = {})
    /\ ~all_assertions_passed => pc \notin {"exit", "raised"}
    /\ (pc = "done" /\ ~all_assertions_passed) =>
          /\ Events("summary") # {}
          /\ report => Len(report_files) = 1

\* C17: no step of the assertion loop ends the run: an error raised while an
\* assertion is evaluated appends a [FAIL] line, and the loop goes on to the
\* next assertion, in list order, until the list is exhausted.
C17_AssertionsNeverAbort ==
    [][ (pc \in {"dispatch", "crit_client", "crit_parse", "crit_call",
                 "crit_validate", "crit_check"}) =>
          /\ pc' \notin {"exit", "raised"}
          /\ error' = NoError
      ]_vars

====
